---- MODULE Spec2Model ----
(***************************************************************************)
(* A model of segmented_list (src/src/segmented_list.hpp): an unrolled     *)
(* linked list of fixed-capacity blocks with a one-block reserve.          *)
(*                                                                         *)
(* Blocks live in an arena of addresses 1..MaxBlocks; 0 is nullptr.  The   *)
(* arena keeps the bytes of a deallocated block, so a dangling pointer can *)
(* still be followed.  Every dereference of a pointer that is null or      *)
(* dangling is undefined behaviour and is modelled as a choice:            *)
(*   - nullptr:          the access traps              (fault null_deref)  *)
(*   - deallocated block: the access traps, or it reads/writes the stale   *)
(*                        bytes                    (fault use_after_free)  *)
(*   - second deallocate: the allocator aborts, or nothing happens         *)
(*                                                    (fault double_free)  *)
(*   - a loop that can never end                            (fault hang)   *)
(* After a fault the process is gone: no operation is enabled any more.    *)
(* A slot that was never written holds Indet (an indeterminate value).     *)
(***************************************************************************)
EXTENDS Integers, Sequences, FiniteSets, TLC

\* ---------------------------------------------------------------- bounds
\* Block size: the template parameter N of list_block.  The repository
\* instantiates it with 21; the model runs a scaled-down instance.
N == 2
\* Number of block addresses the allocator can hand out.
MaxBlocks == 5
\* Longest run of push_back calls on the fresh container (SpecPush).
MaxPush == 10
\* Largest size() the client of push_back/pop_back drives the container to
\* (SpecTail).
MaxTail == 5
\* Largest size() the client of the full interface drives the container to
\* (Spec).
MaxSize == 3
\* Most blocks the client of the full interface lets the container hold.
MaxLive == 3
\* How far below zero the client lets a size_t counter wrap.
MaxWrap == 1
\* Number of distinct element values.
MaxVal == 2
\* Largest count / longest initializer list a constructor is given.
MaxFill == 3

Val == 1..MaxVal
Indet == 0
Null == 0
BlockIds == 1..MaxBlocks

\* size_t arithmetic wraps; the modulus is scaled down from 2^64 so that the
\* model checker can represent it.  Every live quantity stays far below it.
SizeModulus == 2^30
Add(a, b) == (a + b) % SizeModulus
Sub(a, b) == (a - b + SizeModulus) % SizeModulus

VARIABLES
    _head, _tail, _reserved,       \* segmented_list members (block addresses)
    _capacity, _size, _num_blocks, \* segmented_list members (size_t)
    heap,                          \* address -> list_block object (or its stale bytes)
    live,                          \* addresses allocated and not yet deallocated
    fault,                         \* "none", or the undefined behaviour that ended the process
    call,                          \* the last call made and the exception it threw ("none" if it returned)
    ref,                           \* the sequence the calls that returned so far are specified to produce
    it                             \* an iterator held by the client

vars == <<_head, _tail, _reserved, _capacity, _size, _num_blocks,
          heap, live, fault, call, ref, it>>

\* ------------------------------------------------------------ list_block
\* list_block(list_block* tail): _previous(tail), _next(nullptr), _size(0);
\* the array is default-initialised, i.e. indeterminate.
list_block(prev) ==
    [arr |-> [i \in 0..(N - 1) |-> Indet], previous |-> prev, next |-> Null, size |-> 0]

\* What a call returns: an element value (val), a block address (block), a
\* slot of a block (block, idx) or an iterator (block, idx, state).
NoRet == [block |-> Null, idx |-> 0, state |-> "none", val |-> Indet]

\* ------------------------------------------- the object state as a record
\* Operations are functions from one object state to the set of states the
\* call can end in.  ex is the exception of the call, ret its return value.
Self ==
    [head |-> _head, tail |-> _tail, reserved |-> _reserved,
     capacity |-> _capacity, size |-> _size, num_blocks |-> _num_blocks,
     mem |-> heap, live |-> live, fault |-> fault, ex |-> "none", ret |-> NoRet]

Fault(s, f) == [s EXCEPT !.fault = f]
Throw(s, e) == [s EXCEPT !.ex = e]
Running(s) == s.fault = "none" /\ s.ex = "none"

\* Sequential composition: run F on every state that is still running.
Then(S, F(_)) == UNION {IF Running(s) THEN F(s) ELSE {s} : s \in S}

\* An access through pointer p, F being what the access does when it goes
\* through.
Deref(s, p, F(_)) ==
    IF p = Null THEN {Fault(s, "null_deref")}
    ELSE IF p \notin s.live THEN {Fault(s, "use_after_free")} \cup F(s)
    ELSE F(s)

\* allocator_traits::destroy + deallocate of the block at p.
Free(s, p) ==
    IF p = Null THEN {s}
    ELSE IF p \notin s.live THEN {Fault(s, "double_free"), s}
    ELSE {[s EXCEPT !.live = @ \ {p}]}

\* list_block::push_back on the block at address b.
WrongBlockPushBack(s, b, val) ==
    IF s.mem[b].size < N
    THEN {[s EXCEPT !.mem[b].arr[0] = val, !.mem[b].size = Add(@, 1)]}
    ELSE {Throw(s, "out_of_range")}

block_push_back(s, b, val) ==
    IF s.mem[b].size < N
    THEN {[s EXCEPT !.mem[b].arr[s.mem[b].size] = val, !.mem[b].size = Add(@, 1)]}
    ELSE {Throw(s, "out_of_range")}

\* ---------------------------------------------------------- _alloc_block
\* The two statements after either branch.
alloc_grow(s) ==
    {[s EXCEPT !.capacity = Add(@, N), !.num_blocks = Add(@, 1)]}

\* if (_reserved): link the reserved block behind the tail.  _reserved is
\* left as it is.
alloc_link_reserved(s) ==
    {[s EXCEPT !.mem[s.reserved].previous = s.tail, !.tail = s.reserved]}

alloc_reserved(s) ==
    Then(Deref(s, s.tail, LAMBDA t : {[t EXCEPT !.mem[t.tail].next = t.reserved]}),
         LAMBDA t : Deref(t, t.reserved, alloc_link_reserved))

\* else: allocate and construct a block at a free address b, link it.
alloc_fresh_at(s, b) ==
    LET s1 == [s EXCEPT !.live = @ \cup {b}, !.mem[b] = list_block(s.tail)]
        s2 == IF s.num_blocks = 0
                THEN {[s1 EXCEPT !.head = b]}
              ELSE IF s.num_blocks = 1
                THEN Deref(s1, s1.head, LAMBDA t : {[t EXCEPT !.mem[t.head].next = b]})
              ELSE Deref(s1, s1.tail, LAMBDA t : {[t EXCEPT !.mem[t.tail].next = b]})
    IN  Then(s2, LAMBDA t : {[t EXCEPT !.tail = b]})

\* allocator_traits::allocate: the address of the new block.  Addresses are
\* only ever compared with each other, so which free address comes back does
\* not matter unless somebody still holds it: the allocator hands out the
\* lowest free address, or the free address the client's iterator points to.
Allocate(s) ==
    LET free == BlockIds \ s.live IN
    {b \in free : (\A c \in free : b <= c) \/ b = it.block}

alloc_fresh(s) == UNION {alloc_fresh_at(s, b) : b \in Allocate(s)}

_alloc_block(s) ==
    Then(IF s.reserved # Null THEN alloc_reserved(s) ELSE alloc_fresh(s), alloc_grow)

\* ------------------------------------------------------------- push_back
push_back(s, val) ==
    Then(IF s.size = s.capacity THEN _alloc_block(s) ELSE {s},
         LAMBDA t : Deref(t, t.tail,
             LAMBDA u : Then(block_push_back(u, u.tail, val),
                 LAMBDA w : {[w EXCEPT !.size = Add(@, 1)]})))

\* -------------------------------------------------------------- pop_back
\* if (_reserved) destroy/deallocate(_tail) else keep it as the reserve
pop_back_release(s) ==
    IF s.reserved # Null
    THEN Free(s, s.tail)
    ELSE {[s EXCEPT !.reserved = s.tail,
                    !.mem[s.tail].previous = Null,
                    !.mem[s.tail].next = Null,
                    !.mem[s.tail].size = 0]}

pop_back_settle(s, new_tail) ==
    {[s EXCEPT !.tail = new_tail, !.capacity = Sub(@, N), !.num_blocks = Sub(@, 1)]}

\* the body of if (_tail->_size == 0)
pop_back_detach(s) ==
    LET new_tail == s.mem[s.tail].previous IN
    Then(Then(Deref(s, new_tail, LAMBDA t : {[t EXCEPT !.mem[new_tail].next = Null]}),
              pop_back_release),
         LAMBDA t : pop_back_settle(t, new_tail))

pop_back_body(s) ==
    LET t == [s EXCEPT !.mem[s.tail].size = Sub(@, 1), !.size = Sub(@, 1)] IN
    IF t.mem[t.tail].size = 0 THEN pop_back_detach(t) ELSE {t}

pop_back(s) ==
    IF s.size = 0
    THEN {Throw(s, "out_of_range")}
    ELSE Deref(s, s.tail, pop_back_body)

\* -------------------------------------------------------------------- at
Ret(s, r) == [s EXCEPT !.ret = r]
RetVal(s, v) == Ret(s, [NoRet EXCEPT !.val = v])
RetNode(s, b) == Ret(s, [NoRet EXCEPT !.block = b])

\* The longest walk that can end: a chain without a cycle has at most
\* MaxBlocks blocks.
WalkFuel == MaxBlocks + 1

\* for (i = 0; i < k; i++) if (current_node) current_node = current_node->link
\* else throw.  ret carries current_node.  A walk that outlives its fuel is
\* circling a cycle of the chain.
RECURSIVE at_walk(_, _, _, _, _)
at_walk(s, node, k, fwd, fuel) ==
    IF k = 0 THEN {RetNode(s, node)}
    ELSE IF node = Null THEN {Throw(s, "out_of_range")}
    ELSE IF fuel = 0 THEN {Fault(s, "hang")}
    ELSE Deref(s, node,
            LAMBDA t : at_walk(t, IF fwd THEN t.mem[node].next ELSE t.mem[node].previous,
                               k - 1, fwd, fuel - 1))

\* the choice of containing_node
at_node(s, block_number) ==
    IF block_number = 0 THEN {RetNode(s, s.head)}
    ELSE IF block_number = Sub(s.num_blocks, 1) THEN {RetNode(s, s.tail)}
    ELSE IF block_number <= s.num_blocks \div 2
        THEN at_walk(s, s.head, block_number, TRUE, WalkFuel)
    ELSE at_walk(s, s.tail, Sub(Sub(s.num_blocks, block_number), 1), FALSE, WalkFuel)

\* if (index_number < containing_node->_size) return _arr[index_number]
at_index(s, node, index_number) ==
    IF index_number < s.mem[node].size
    THEN {RetVal(s, s.mem[node].arr[index_number])}
    ELSE {Throw(s, "out_of_range")}

at(s, n) ==
    IF n < s.size
    THEN Then(at_node(s, n \div N),
              LAMBDA t : Deref(t, t.ret.block, LAMBDA u : at_index(u, t.ret.block, n % N)))
    ELSE {Throw(s, "out_of_range")}

\* operator[]: an alias for at
subscript(s, n) == at(s, n)

\* ----------------------------------------------------------- front, back
front(s) ==
    IF s.size = 0
    THEN {Throw(s, "out_of_range")}
    ELSE Deref(s, s.head, LAMBDA t : {RetVal(t, t.mem[t.head].arr[0])})

\* _tail->_arr[_tail->size() - 1]: with an empty tail block the index wraps
\* and the read leaves the array.
back_read(s) ==
    LET i == Sub(s.mem[s.tail].size, 1) IN
    IF i < N THEN {RetVal(s, s.mem[s.tail].arr[i])}
    ELSE {Fault(s, "out_of_bounds"), RetVal(s, Indet)}

back(s) ==
    IF s.size = 0
    THEN {Throw(s, "out_of_range")}
    ELSE Deref(s, s.tail, back_read)

\* ----------------------------------------------------------------- clear
RECURSIVE clear_loop(_, _, _)
clear_loop(s, current, fuel) ==
    IF current = Null THEN {s}
    ELSE IF fuel = 0 THEN {Fault(s, "hang")}
    ELSE Then(Deref(s, current, LAMBDA t : Free(t, current)),
              LAMBDA t : clear_loop(t, t.mem[current].next, fuel - 1))

clear_reserved(s) ==
    IF s.reserved # Null
    THEN Then(Free(s, s.reserved), LAMBDA t : {[t EXCEPT !.reserved = Null]})
    ELSE {s}

clear_members(s) ==
    {[s EXCEPT !.capacity = 0, !.size = 0, !.num_blocks = 0, !.head = Null, !.tail = Null]}

clear(s) ==
    Then(Then(clear_loop(s, s.head, WalkFuel), clear_reserved), clear_members)

\* --------------------------------------------------------- list_iterator
\* An iterator is [state, block, idx]; an operation on it returns it in ret.
Iter(b, i, st) == [block |-> b, idx |-> i, state |-> st, val |-> Indet]

\* list_iterator() : nullptr, 0, before_begin
DefaultIter == Iter(Null, 0, "before_begin")

\* operator== compares all three members; operator!= is written out
\* separately in the source.
iter_eq(a, b) == a.block = b.block /\ a.idx = b.idx /\ a.state = b.state
iter_ne(a, b) == a.block # b.block \/ a.idx # b.idx \/ a.state # b.state

\* operator*: the slot the iterator names, returned as (block, idx).
iter_deref(s, i) ==
    IF i.state = "valid"
    THEN Deref(s, i.block,
            LAMBDA t : IF i.idx < N THEN {Ret(t, Iter(i.block, i.idx, "slot"))}
                       ELSE {Throw(t, "out_of_range")})
    ELSE {Throw(s, "out_of_range")}

\* operator++ that forgets to reset the index when it moves to the next block.
WrongIterIncStep(s, i, idx) ==
    IF idx = N
    THEN IF s.mem[i.block].next # Null
         THEN {Ret(s, Iter(s.mem[i.block].next, idx, "valid"))}
         ELSE {Ret(s, Iter(i.block, idx, "past_end"))}
    ELSE IF idx = s.mem[i.block].size
         THEN {Ret(s, Iter(i.block, idx, "past_end"))}
         ELSE {Ret(s, Iter(i.block, idx, "valid"))}

\* operator++ after _elem_index++, with the block readable
iter_inc_step(s, i, idx) ==
    IF idx = N
    THEN IF s.mem[i.block].next # Null
         THEN {Ret(s, Iter(s.mem[i.block].next, 0, "valid"))}
         ELSE {Ret(s, Iter(i.block, idx, "past_end"))}
    ELSE IF idx = s.mem[i.block].size
         THEN {Ret(s, Iter(i.block, idx, "past_end"))}
         ELSE {Ret(s, Iter(i.block, idx, "valid"))}

\* operator++
iter_inc(s, i) ==
    IF i.state = "valid"
    THEN Deref(s, i.block, LAMBDA t : iter_inc_step(t, i, Add(i.idx, 1)))
    ELSE {Throw(s, "out_of_range")}

\* operator++(int): li is a copy of *this, returned at the end; *this moves
\* as written out again in the source.  ret carries *this after the call.
iter_post_inc(s, i) ==
    IF i.state = "valid"
    THEN Deref(s, i.block,
            LAMBDA t :
                LET idx == Add(i.idx, 1) IN
                IF idx = N
                THEN IF t.mem[i.block].next # Null
                     THEN {Ret(t, Iter(t.mem[i.block].next, 0, "valid"))}
                     ELSE {Ret(t, Iter(i.block, idx, "past_end"))}
                ELSE IF idx = t.mem[i.block].size
                     THEN {Ret(t, Iter(i.block, idx, "past_end"))}
                     ELSE {Ret(t, Iter(i.block, idx, "valid"))})
    ELSE {Throw(s, "out_of_range")}

\* operator-- with the block step landing one slot too far.
WrongIterDec(s, i) ==
    IF i.state = "valid"
    THEN IF i.idx = 0
         THEN Deref(s, i.block,
                 LAMBDA t : IF t.mem[i.block].previous # Null
                            THEN {Ret(t, Iter(t.mem[i.block].previous, N, "valid"))}
                            ELSE {Ret(t, Iter(i.block, 0, "before_begin"))})
         ELSE {Ret(s, Iter(i.block, Sub(i.idx, 1), "valid"))}
    ELSE IF i.state = "past_end"
    THEN Deref(s, i.block,
            LAMBDA t : {Ret(t, Iter(i.block, Sub(t.mem[i.block].size, 1), "valid"))})
    ELSE {Throw(s, "out_of_range")}

\* operator-- and operator--(int)
iter_dec(s, i) ==
    IF i.state = "valid"
    THEN IF i.idx = 0
         THEN Deref(s, i.block,
                 LAMBDA t : IF t.mem[i.block].previous # Null
                            THEN {Ret(t, Iter(t.mem[i.block].previous, N - 1, "valid"))}
                            ELSE {Ret(t, Iter(i.block, 0, "before_begin"))})
         ELSE {Ret(s, Iter(i.block, Sub(i.idx, 1), "valid"))}
    ELSE IF i.state = "past_end"
    THEN Deref(s, i.block,
            LAMBDA t : {Ret(t, Iter(i.block, Sub(t.mem[i.block].size, 1), "valid"))})
    ELSE {Throw(s, "out_of_range")}

\* begin() / cbegin()
begin(s) ==
    {Ret(s, Iter(s.head, 0, IF s.size = 0 THEN "before_begin" ELSE "valid"))}

\* end() / cend(): iterator(_tail, _tail->size(), past_end)
end(s) ==
    Deref(s, s.tail, LAMBDA t : {Ret(t, Iter(t.tail, t.mem[t.tail].size, "past_end"))})

\* begin() advanced k times by operator++
RECURSIVE iter_at(_, _)
iter_at(s, k) ==
    IF k = 0 THEN begin(s)
    ELSE Then(iter_at(s, k - 1), LAMBDA t : iter_inc(t, t.ret))

\* ---------------------------------------------------------------- insert
\* A loop over iterator positions that has taken more steps than there are
\* positions is circling a cycle of the chain.
LoopFuel == MaxSize + 1

\* *new_position = *old_position.  Both reverse iterators hold the same base
\* (old_position is a copy of new_position taken after ++new_position), and
\* reverse_iterator::operator* is *--tmp on a copy of the base: the statement
\* assigns a slot to itself.
insert_move(s, base) ==
    Then(iter_dec(s, base), LAMBDA t : iter_deref(t, t.ret))

\* while (old_position.base() != position) { move; old_position++; new_position++; }
RECURSIVE insert_loop(_, _, _, _)
insert_loop(s, base, position, fuel) ==
    IF ~iter_ne(base, position) THEN {s}
    ELSE IF fuel = 0 THEN {Fault(s, "hang")}
    ELSE Then(Then(insert_move(s, base), LAMBDA t : iter_dec(t, base)),
              LAMBDA t : insert_loop(t, t.ret, position, fuel - 1))

\* *position = val
insert_store(s, position, val) ==
    Then(iter_deref(s, position),
         LAMBDA t : {[t EXCEPT !.mem[t.ret.block].arr[t.ret.idx] = val]})

\* _size++; if (_size >= _capacity) _alloc_block();
insert_grow(s) ==
    LET s1 == [s EXCEPT !.size = Add(@, 1)] IN
    IF s1.size >= s1.capacity THEN _alloc_block(s1) ELSE {s1}

insert(s, position, val) ==
    Then(Then(Then(Then(insert_grow(s),
                        end),                                \* rbegin()
                   LAMBDA t : iter_dec(t, t.ret)),           \* ++new_position
              LAMBDA t : insert_loop(t, t.ret, position, LoopFuel)),
         LAMBDA t : insert_store(t, position, val))

\* ----------------------------------------------------------------- erase
\* while (next != this->end()) { *cur = *next; cur++; next++; }
\* next is a copy of cur taken after ++cur: the two are the same position.
RECURSIVE erase_loop(_, _, _)
erase_loop(s, cur, fuel) ==
    Then(end(s),
         LAMBDA e : IF ~iter_ne(cur, e.ret) THEN {e}
                    ELSE IF fuel = 0 THEN {Fault(e, "hang")}
                    ELSE Then(Then(iter_deref(e, cur), LAMBDA t : iter_inc(t, cur)),
                              LAMBDA t : erase_loop(t, t.ret, fuel - 1)))

\* if (_reserved): the emptied tail becomes the reserve
erase_keep(s) ==
    LET old == s.tail IN
    {[s EXCEPT !.reserved = old, !.tail = s.mem[old].previous,
               !.mem[old].size = 0, !.mem[old].previous = Null, !.mem[old].next = Null]}

\* else: the emptied tail is destroyed and deallocated
erase_drop(s) ==
    LET to_delete == s.tail
        s1 == [s EXCEPT !.tail = s.mem[to_delete].previous]
    IN  Then(Deref(s1, s1.tail, LAMBDA t : {[t EXCEPT !.mem[t.tail].next = Null]}),
             LAMBDA t : Free(t, to_delete))

\* _size--; if (_tail->empty()) ...
erase_shrink(s) ==
    LET s1 == [s EXCEPT !.size = Sub(@, 1)] IN
    Deref(s1, s1.tail,
        LAMBDA t : IF t.mem[t.tail].size = 0
                   THEN IF t.reserved # Null THEN erase_keep(t) ELSE erase_drop(t)
                   ELSE {t})

erase(s, position) ==
    Then(Then(iter_inc(s, position),                          \* next = ++cur
              LAMBDA t : erase_loop(t, t.ret, LoopFuel)),
         erase_shrink)

\* ---------------------------------------------------------- constructors
\* segmented_list(): every member null / 0, no block allocated.
NewObject ==
    [head |-> Null, tail |-> Null, reserved |-> Null,
     capacity |-> 0, size |-> 0, num_blocks |-> 0,
     mem |-> [b \in BlockIds |-> list_block(Null)], live |-> {},
     fault |-> "none", ex |-> "none", ret |-> NoRet]

\* for (i = 0; i < count; i++) this->push_back(value)
RECURSIVE fill(_, _, _)
fill(s, count, value) ==
    IF count = 0 THEN {s}
    ELSE Then(push_back(s, value), LAMBDA t : fill(t, count - 1, value))

\* value_type{ }: one fixed value of T.
DefaultVal == 1

\* segmented_list(count, value)
segmented_list_fill(count, value) == fill(NewObject, count, value)

\* segmented_list(count)
segmented_list_count(count) == fill(NewObject, count, DefaultVal)

\* segmented_list(const std::initializer_list<T>& il): delegates to
\* segmented_list(); the body is empty.
segmented_list_il(il) == {NewObject}

\* ===================================================== the state machine
\* segmented_list(): all members null / 0.  No block exists yet.
Init ==
    /\ _head = Null /\ _tail = Null /\ _reserved = Null
    /\ _capacity = 0 /\ _size = 0 /\ _num_blocks = 0
    /\ heap = [b \in BlockIds |-> list_block(Null)]
    /\ live = {}
    /\ fault = "none"
    /\ call = [op |-> "segmented_list", ex |-> "none"]
    /\ ref = <<>>
    /\ it = DefaultIter

\* A call that ran into undefined behaviour leaves nothing to observe: the
\* state is kept as it was before the call, marked with the fault.
Outcomes(s, R) == {IF r.fault # "none" THEN Fault(s, r.fault) ELSE r : r \in R}

\* The object after a call that ended in r.
Becomes(r, op, newref) ==
    /\ _head' = r.head /\ _tail' = r.tail /\ _reserved' = r.reserved
    /\ _capacity' = r.capacity /\ _size' = r.size /\ _num_blocks' = r.num_blocks
    /\ heap' = r.mem
    /\ live' = r.live
    /\ fault' = r.fault
    /\ call' = [op |-> op, ex |-> r.ex]
    /\ ref' = IF Running(r) THEN newref ELSE ref

\* What the calls are specified to do to the sequence of elements.  A call
\* that throws is specified to change nothing.
RefInsert(q, k, v) ==
    IF k < Len(q) THEN SubSeq(q, 1, k) \o <<v>> \o SubSeq(q, k + 1, Len(q)) ELSE Append(q, v)
RefErase(q, k) ==
    IF k < Len(q) THEN SubSeq(q, 1, k) \o SubSeq(q, k + 2, Len(q)) ELSE q
RefPop(q) == IF Len(q) > 0 THEN SubSeq(q, 1, Len(q) - 1) ELSE q

PushBack(v) ==
    /\ fault = "none"
    /\ \E r \in Outcomes(Self, push_back(Self, v)) : Becomes(r, "push_back", Append(ref, v))
    /\ UNCHANGED it

PopBack ==
    /\ fault = "none"
    /\ \E r \in Outcomes(Self, pop_back(Self)) : Becomes(r, "pop_back", RefPop(ref))
    /\ UNCHANGED it

\* The positions a client can name: begin() advanced k times, k < size().
Positions(s, k) == {p \in iter_at(s, k) : p.fault # "none" \/ (p.ex = "none" /\ p.ret.state = "valid")}

Insert(k, v) ==
    /\ fault = "none"
    /\ \E p \in Positions(Self, k) :
         \E r \in Outcomes(Self, IF p.fault # "none" THEN {p} ELSE insert(Self, p.ret, v)) :
            Becomes(r, "insert", RefInsert(ref, k, v))
    /\ UNCHANGED it

Erase(k) ==
    /\ fault = "none"
    /\ \E p \in Positions(Self, k) :
         \E r \in Outcomes(Self, IF p.fault # "none" THEN {p} ELSE erase(Self, p.ret)) :
            Becomes(r, "erase", RefErase(ref, k))
    /\ UNCHANGED it

Clear ==
    /\ fault = "none"
    /\ \E r \in Outcomes(Self, clear(Self)) : Becomes(r, "clear", <<>>)
    /\ UNCHANGED it

Indexes == 0..(MaxSize - 1)

\* The client stops growing the container at MaxSize elements.
Room(n) == _size < n /\ Len(ref) < n

\* The counters of the object are unbounded once they disagree: the client
\* stops short of states with more than MaxLive blocks or with a counter
\* wrapped further than MaxWrap below zero.
InRange(x) == x <= MaxTail + 2 * N \/ x >= SizeModulus - MaxWrap
Bounded ==
    /\ Cardinality(live) <= MaxLive
    /\ InRange(_capacity) /\ InRange(_num_blocks) /\ InRange(_size)
    /\ \A b \in BlockIds : InRange(heap[b].size)

Next ==
    \/ \E v \in Val : Room(MaxSize) /\ PushBack(v) /\ Bounded'
    \/ PopBack /\ Bounded'
    \/ \E k \in Indexes, v \in Val : Room(MaxSize) /\ k < _size /\ Insert(k, v) /\ Bounded'
    \/ \E k \in Indexes : k < _size /\ Erase(k) /\ Bounded'
    \/ Clear

Spec == Init /\ [][Next]_vars

\* Only push_back, from the empty container.
NextPush == \E v \in Val : Room(MaxPush) /\ PushBack(v)
SpecPush == Init /\ [][NextPush]_vars

\* push_back, and pop_back on a container that is not empty.
NextTail ==
    \/ \E v \in Val : Room(MaxTail) /\ PushBack(v) /\ Bounded'
    \/ _size > 0 /\ PopBack /\ Bounded'
SpecTail == Init /\ [][NextTail]_vars

\* The client takes begin() into its iterator.
ItBegin ==
    /\ fault = "none"
    /\ \E r \in Outcomes(Self, begin(Self)) :
          /\ Becomes(r, "begin", ref)
          /\ it' = IF Running(r) THEN r.ret ELSE it

\* The client advances its iterator with operator++.
ItInc ==
    /\ fault = "none"
    /\ \E r \in Outcomes(Self, iter_inc(Self, it)) :
          /\ Becomes(r, "operator++", ref)
          /\ it' = IF Running(r) THEN r.ret ELSE it

\* push_back and pop_back on a container that is not empty, with an
\* iterator held across the calls.
NextIter ==
    \/ \E v \in Val : Room(MaxTail) /\ PushBack(v) /\ Bounded'
    \/ _size > 0 /\ PopBack /\ Bounded'
    \/ ItBegin
    \/ ItInc
SpecIter == Init /\ [][NextIter]_vars

\* The object as a constructor left it, q being the sequence the constructor
\* is specified to produce.
Constructed(r, op, q) ==
    /\ _head = r.head /\ _tail = r.tail /\ _reserved = r.reserved
    /\ _capacity = r.capacity /\ _size = r.size /\ _num_blocks = r.num_blocks
    /\ heap = r.mem
    /\ live = r.live
    /\ fault = r.fault
    /\ call = [op |-> op, ex |-> r.ex]
    /\ ref = q

RECURSIVE SeqsUpTo(_)
SeqsUpTo(n) ==
    IF n = 0 THEN {<<>>}
    ELSE SeqsUpTo(n - 1) \cup {Append(q, v) : q \in {x \in SeqsUpTo(n - 1) : Len(x) = n - 1}, v \in Val}

\* The container is built by one of the constructors that take elements.
InitCtor ==
    /\ it = DefaultIter
    /\ \/ \E n \in 0..MaxFill, v \in Val : \E r \in segmented_list_fill(n, v) :
              Constructed(r, "segmented_list(count, value)", [i \in 1..n |-> v])
       \/ \E n \in 0..MaxFill : \E r \in segmented_list_count(n) :
              Constructed(r, "segmented_list(count)", [i \in 1..n |-> DefaultVal])
       \/ \E il \in SeqsUpTo(MaxFill) : \E r \in segmented_list_il(il) :
              Constructed(r, "segmented_list(il)", il)

\* A constructed container, then push_back.
SpecCtor == InitCtor /\ [][NextPush]_vars

\* ================================================================ claims
\* What a read-only call returns when it can only end in one way: the set of
\* its outcomes as <<exception, fault, value>>.
Results(R) == {<<r.ex, r.fault, r.ret.val>> : r \in R}
Returns(R, v) == Results(R) = {<<"none", "none", v>>}

\* C1: after k push_back calls on the empty container size() is k and at(i)
\* returns the i-th value appended, for every i < k.
C1_PushBackAppends ==
    /\ fault = "none" /\ call.ex = "none"
    /\ _size = Len(ref)
    /\ \A i \in 0..(Len(ref) - 1) : Returns(at(Self, i), ref[i + 1])

\* C1 witness: five blocks' worth of appends, so that at() has used the
\* head, the tail, the forward walk and the backward walk.
C1_Witness ==
    /\ call.op = "push_back" /\ Len(ref) = 5 * N /\ _num_blocks = 5
    /\ Returns(at(Self, 3 * N), ref[3 * N + 1])

\* The blocks found by following _next from _head, in order.  A walk longer
\* than the arena has run into a cycle.
RECURSIVE ChainFrom(_, _)
ChainFrom(b, fuel) ==
    IF b = Null \/ fuel = 0 THEN <<>> ELSE <<b>> \o ChainFrom(heap[b].next, fuel - 1)
Chain == ChainFrom(_head, MaxBlocks + 1)
ChainSet == {Chain[i] : i \in 1..Len(Chain)}

RECURSIVE SumSizes(_)
SumSizes(q) == IF q = <<>> THEN 0 ELSE heap[Head(q)].size + SumSizes(Tail(q))

\* C2: with push_back and pop_back only, while elements remain, front() is
\* the earliest element still held and back() the latest one appended and
\* not yet removed.
C2_FrontBack ==
    (fault = "none" /\ Len(ref) > 0) =>
        /\ Returns(front(Self), ref[1])
        /\ Returns(back(Self), ref[Len(ref)])

\* C3: capacity() is a multiple of N and at least size(), and the number of
\* blocks in the chain, like _num_blocks, is capacity() / N.
C3_Capacity ==
    fault = "none" =>
        /\ _capacity % N = 0
        /\ _capacity >= _size
        /\ _num_blocks = _capacity \div N
        /\ Len(Chain) = _num_blocks

\* C4: size() is the sum of the element counts of the blocks of the chain.
C4_SizeIsSum ==
    fault = "none" => _size = SumSizes(Chain)

\* C5: every block of the chain but the last is full, and the last holds
\* between 0 and N elements.
C5_OnlyTailPartial ==
    fault = "none" =>
        \A i \in 1..Len(Chain) :
            IF i < Len(Chain) THEN heap[Chain[i]].size = N ELSE heap[Chain[i]].size <= N

\* C6: a reserved block is detached: not in the chain, not the tail, no
\* links, no elements.
C6_ReservedDetached ==
    (fault = "none" /\ _reserved # Null) =>
        /\ _reserved \notin ChainSet
        /\ _reserved # _tail
        /\ heap[_reserved].previous = Null /\ heap[_reserved].next = Null
        /\ heap[_reserved].size = 0

\* C7: head is none iff there is no block iff there is no element, likewise
\* tail; and pop_back on a single element succeeds and leaves head and tail
\* none.
C7_EmptyIffNoBlocks ==
    fault = "none" =>
        /\ (_head = Null) = (_num_blocks = 0)
        /\ (_num_blocks = 0) = (_size = 0)
        /\ (_tail = Null) = (_head = Null)
        /\ _size = 1 =>
             \A r \in pop_back(Self) :
                r.fault = "none" /\ r.ex = "none" /\ r.head = Null /\ r.tail = Null

\* The chain, the blocks and the element values of an object state s.
RECURSIVE ChainOf(_, _, _)
ChainOf(s, b, fuel) ==
    IF b = Null \/ fuel = 0 THEN <<>> ELSE <<b>> \o ChainOf(s, s.mem[b].next, fuel - 1)
Topology(s) ==
    LET c == ChainOf(s, s.head, MaxBlocks + 1) IN
    [size |-> s.size, capacity |-> s.capacity, num_blocks |-> s.num_blocks,
     head |-> s.head, tail |-> s.tail, chain |-> c,
     elems |-> [i \in 1..Len(c) |->
                  [j \in {j \in 0..(N - 1) : j < s.mem[c[i]].size} |-> s.mem[c[i]].arr[j]]]]

\* C8: push_back(v) immediately followed by pop_back() gives back the size,
\* the capacity, the block count and the chain (same blocks in the same order,
\* same head and tail, same elements) of the state before.
C8_PushPopRestores ==
    fault = "none" =>
        \A v \in Val : \A r1 \in push_back(Self, v) :
            /\ Running(r1)
            /\ \A r2 \in pop_back(r1) : Running(r2) /\ Topology(r2) = Topology(Self)

\* C9: a push_back that needs a block while a reserved block is held
\* allocates nothing, touches no deallocated block, and makes the reserved
\* block the new tail, linked after the old one.
C9_ReuseReserved ==
    (fault = "none" /\ _reserved # Null /\ _size = _capacity) =>
        \A v \in Val : \A r \in push_back(Self, v) :
            /\ r.fault = "none"
            /\ r.live = live
            /\ r.tail = _reserved
            /\ r.mem[_reserved].previous = _tail
            /\ _tail # Null => r.mem[_tail].next = _reserved

\* The iterator it is Valid and names the element at logical index k.
Denotes(k) ==
    /\ it.state = "valid" /\ k < _size
    /\ k \div N < Len(Chain) /\ it.block = Chain[(k \div N) + 1] /\ it.idx = k % N
    /\ it.block \in live

\* The iterator it still names its block and slot in s, with the value it
\* has now.
Survives(s) ==
    /\ s.fault = "none"
    /\ it.block \in s.live
    /\ \E i \in 1..Len(ChainOf(s, s.head, MaxBlocks + 1)) :
          ChainOf(s, s.head, MaxBlocks + 1)[i] = it.block
    /\ {<<r.ex, r.fault, r.mem[r.ret.block].arr[r.ret.idx]>> : r \in iter_deref(Throw(s, "none"), it)}
         = {<<"none", "none", heap[it.block].arr[it.idx]>>}

\* C10: an iterator at the element of index k is still good after any
\* push_back and after any pop_back that leaves more than k elements.
C10_IteratorsSurvive ==
    fault = "none" =>
        \A k \in 0..(MaxTail - 1) :
            Denotes(k) =>
                /\ \A v \in Val : \A r \in push_back(Self, v) : Survives(r)
                /\ _size - 1 > k => \A r \in pop_back(Self) : Survives(r)

\* The container in object state s reads as the sequence q: size() is its
\* length and at(i) returns its i-th element.
Holds(s, q) ==
    /\ s.size = Len(q)
    /\ \A i \in 0..(Len(q) - 1) : Returns(at(s, i), q[i + 1])

\* An iteration that has made more steps than there are slots in the arena
\* is going round a cycle of the chain.
IterFuel == MaxBlocks * N + 1

\* for (i = begin(); i != end(); ++i) visit(*i), from iterator i on, seen
\* being the values visited so far.  The outcomes are <<exception, fault,
\* values visited>>.
RECURSIVE forward_from(_, _, _, _)
forward_from(s, i, seen, fuel) ==
    UNION {
        IF ~Running(e) THEN {<<e.ex, e.fault, seen>>}
        ELSE IF ~iter_ne(i, e.ret) THEN {<<"none", "none", seen>>}
        ELSE IF fuel = 0 THEN {<<"none", "hang", seen>>}
        ELSE UNION {
            IF ~Running(d) THEN {<<d.ex, d.fault, seen>>}
            ELSE UNION {
                IF ~Running(n) THEN {<<n.ex, n.fault, Append(seen, d.mem[d.ret.block].arr[d.ret.idx])>>}
                ELSE forward_from(n, n.ret, Append(seen, d.mem[d.ret.block].arr[d.ret.idx]), fuel - 1)
                : n \in iter_inc(d, i)}
            : d \in iter_deref(s, i)}
        : e \in end(s)}

forward(s) ==
    UNION {IF ~Running(b) THEN {<<b.ex, b.fault, <<>> >>} ELSE forward_from(b, b.ret, <<>>, IterFuel)
           : b \in begin(s)}

\* C11: insert at the Valid position of index k of a container reading ref
\* returns, and the container then reads ref[0..k), v, ref[k..) with size
\* one larger.
C11_InsertInserts ==
    (fault = "none" /\ Holds(Self, ref)) =>
        \A k \in 0..(Len(ref) - 1), v \in Val :
            \A p \in Positions(Self, k) :
                Running(p) =>
                    \A r \in insert(Self, p.ret, v) :
                        Running(r) /\ Holds(r, RefInsert(ref, k, v))

\* C12: erase at the Valid position of index k of a container reading ref
\* returns, the container then reads ref without its k-th element, and the
\* loop from begin() to end() visits exactly those elements.
C12_EraseRemoves ==
    (fault = "none" /\ Holds(Self, ref)) =>
        \A k \in 0..(Len(ref) - 1) :
            \A p \in Positions(Self, k) :
                Running(p) =>
                    \A r \in erase(Self, p.ret) :
                        /\ Running(r)
                        /\ Holds(r, RefErase(ref, k))
                        /\ forward(r) = {<<"none", "none", RefErase(ref, k)>>}

\* C13: insert at index k followed by erase at index k gives back the
\* sequence and the size the container had.
C13_InsertEraseRestores ==
    (fault = "none" /\ Holds(Self, ref)) =>
        \A k \in 0..(Len(ref) - 1), v \in Val :
            \A p \in Positions(Self, k) :
                Running(p) =>
                    \A r1 \in insert(Self, p.ret, v) :
                        /\ Running(r1)
                        /\ \A p2 \in Positions(r1, k) :
                              /\ Running(p2)
                              /\ \A r2 \in erase(r1, p2.ret) : Running(r2) /\ Holds(r2, ref)

\* for (r = rbegin(); r != rend(); ++r) visit(*r), base being r.base().
\* std::reverse_iterator compares bases with operator==, reads *--tmp on a
\* copy tmp of the base, and advances with --base.
RECURSIVE backward_from(_, _, _, _)
backward_from(s, base, seen, fuel) ==
    UNION {
        IF ~Running(b) THEN {<<b.ex, b.fault, seen>>}
        ELSE IF iter_eq(base, b.ret) THEN {<<"none", "none", seen>>}
        ELSE IF fuel = 0 THEN {<<"none", "hang", seen>>}
        ELSE UNION {
            IF ~Running(d) THEN {<<d.ex, d.fault, seen>>}
            ELSE UNION {
                IF ~Running(n) THEN {<<n.ex, n.fault, Append(seen, d.mem[d.ret.block].arr[d.ret.idx])>>}
                ELSE backward_from(n, n.ret, Append(seen, d.mem[d.ret.block].arr[d.ret.idx]), fuel - 1)
                : n \in iter_dec(d, base)}
            : d \in Then(iter_dec(s, base), LAMBDA t : iter_deref(t, t.ret))}
        : b \in begin(s)}

backward(s) ==
    UNION {IF ~Running(e) THEN {<<e.ex, e.fault, <<>> >>} ELSE backward_from(e, e.ret, <<>>, IterFuel)
           : e \in end(s)}

Reverse(q) == [i \in 1..Len(q) |-> q[Len(q) + 1 - i]]

\* C14: in every state, the empty container included, the loop from begin()
\* to end() ends and visits exactly the size() elements of the container in
\* insertion order.
C14_ForwardIteration ==
    fault = "none" =>
        /\ _size = Len(ref)
        /\ forward(Self) = {<<"none", "none", ref>>}

\* C15: on a non-empty container built by push_back calls, the loop from
\* rbegin() to rend() visits exactly the size() elements in the reverse of
\* insertion order.
C15_ReverseIteration ==
    (fault = "none" /\ Len(ref) > 0) =>
        /\ _size = Len(ref)
        /\ backward(Self) = {<<"none", "none", Reverse(ref)>>}

\* C15 witness: a reverse loop that has crossed two block boundaries, from
\* index 0 of a block to index N - 1 of the block before it, over elements
\* that are not all the same.
C15_Witness ==
    /\ call.op = "push_back" /\ Len(ref) = 2 * N + 1 /\ _num_blocks = 3
    /\ ref[1] # ref[Len(ref)]
    /\ backward(Self) = {<<"none", "none", Reverse(ref)>>}

\* C16: clear() deallocates every block, each once, and leaves head, tail
\* and reserved null and size, capacity and the block count 0; the next
\* push_back allocates exactly one block and gives the one-element container
\* a newly constructed one would give.
C16_ClearFreesAll ==
    fault = "none" =>
        \A r \in clear(Self) :
            /\ Running(r)
            /\ r.live = {}
            /\ r.head = Null /\ r.tail = Null /\ r.reserved = Null
            /\ r.size = 0 /\ r.capacity = 0 /\ r.num_blocks = 0
            /\ \A v \in Val : \A r2 \in push_back(r, v) :
                  /\ Running(r2)
                  /\ Cardinality(r2.live) = 1
                  /\ r2.head \in r2.live /\ r2.tail = r2.head /\ r2.reserved = Null
                  /\ r2.size = 1 /\ r2.capacity = N /\ r2.num_blocks = 1
                  /\ Holds(r2, <<v>>)

\* The call ended in r by throwing std::out_of_range.
Threw(r) == r.fault = "none" /\ r.ex = "out_of_range"

\* Indexes at and past size(): the next ones, and the largest size_t.
PastIndexes == {i \in 0..(MaxPush + N) : i >= _size} \cup {SizeModulus - 1}

\* C17: at(i) and operator[](i) throw for every i >= size(), pop_back(),
\* front() and back() throw on the empty container, and none of the five
\* fails on an index in range / a container that is not empty.
C17_ErrorsExactlyWhenOutOfRange ==
    fault = "none" =>
        /\ \A i \in PastIndexes :
              (\A r \in at(Self, i) : Threw(r)) /\ (\A r \in subscript(Self, i) : Threw(r))
        /\ _size = 0 =>
              \A r \in pop_back(Self) \cup front(Self) \cup back(Self) : Threw(r)
        /\ \A i \in 0..(MaxPush + N) :
              i < _size => \A r \in at(Self, i) \cup subscript(Self, i) : Running(r)
        /\ _size > 0 =>
              \A r \in pop_back(Self) \cup front(Self) \cup back(Self) : Running(r)

\* Object state r has every member, every block and the set of allocated
\* blocks as they are now.
Untouched(r) ==
    /\ r.head = _head /\ r.tail = _tail /\ r.reserved = _reserved
    /\ r.size = _size /\ r.capacity = _capacity /\ r.num_blocks = _num_blocks
    /\ r.mem = heap /\ r.live = live

\* Iterators that are not Valid: the default-constructed one, begin() of an
\* empty container, begin() retreated once, end(), and the last position
\* advanced once.
RetsOf(R) == {r.ret : r \in {x \in R : Running(x)}}
OffPositions ==
    {p \in {DefaultIter}
           \cup RetsOf(begin(Self))
           \cup RetsOf(Then(begin(Self), LAMBDA t : iter_dec(t, t.ret)))
           \cup RetsOf(end(Self))
           \cup UNION {RetsOf(Then(iter_at(Self, k), LAMBDA t : iter_inc(t, t.ret)))
                       : k \in {j \in 0..MaxPush : j + 1 = _size}}
       : p.state # "valid"}

\* C18: a call that throws (at or operator[] past the end; pop_back, front,
\* back on the empty container; insert or erase at a position that is not
\* Valid) leaves every member and every block as it was.
C18_FailureLeavesState ==
    fault = "none" =>
        /\ \A i \in PastIndexes : \A r \in at(Self, i) \cup subscript(Self, i) : Threw(r) => Untouched(r)
        /\ _size = 0 =>
              \A r \in pop_back(Self) \cup front(Self) \cup back(Self) : Threw(r) => Untouched(r)
        /\ \A p \in OffPositions :
              /\ \A r \in erase(Self, p) : Threw(r) => Untouched(r)
              /\ \A v \in Val : \A r \in insert(Self, p, v) : Threw(r) => Untouched(r)

\* C19: with valid arguments no block-level failure surfaces: push_back
\* never throws (its only throw is list_block::push_back on a full block),
\* the tail block is not empty when pop_back is about to take an element
\* from it, and at(i), i < size(), never throws (its throws below the outer
\* bounds check are the lookup failures).
C19_NoBlockFailure ==
    fault = "none" =>
        /\ \A v \in Val : \A r \in push_back(Self, v) : r.ex = "none"
        /\ (_size > 0 /\ _tail # Null) => heap[_tail].size > 0
        /\ \A i \in 0..(MaxPush + N) : i < _size => \A r \in at(Self, i) : r.ex = "none"

\* Equality as specified: the state tags match and, for Valid iterators,
\* block and index match.
SameIterator(a, b) ==
    a.state = b.state /\ (a.state = "valid" => (a.block = b.block /\ a.idx = b.idx))

\* The iterators a client can hold now: the one it kept, a default-
\* constructed one, begin(), begin() retreated once, end().
Iterators ==
    {it, DefaultIter}
        \cup RetsOf(begin(Self))
        \cup RetsOf(Then(begin(Self), LAMBDA t : iter_dec(t, t.ret)))
        \cup RetsOf(end(Self))

\* C20: operator== is true exactly when the state tags match and, for Valid
\* iterators, block and index match; operator!= is its negation.
C20_IteratorEquality ==
    fault = "none" =>
        \A a \in Iterators, b \in Iterators :
            /\ iter_eq(a, b) = SameIterator(a, b)
            /\ iter_ne(a, b) = ~iter_eq(a, b)

\* C21: right after any of the constructors that take elements the container
\* reads as the elements given (count copies of value, count default values,
\* the elements of the list), and head, tail and reserved are what push_back
\* calls on an empty container leave.
C21_ConstructorsFill ==
    call.op \in {"segmented_list(count, value)", "segmented_list(count)", "segmented_list(il)"} =>
        /\ fault = "none" /\ call.ex = "none"
        /\ Holds(Self, ref)
        /\ _reserved = Null
        /\ IF Len(ref) = 0 THEN _head = Null /\ _tail = Null
           ELSE _head \in live /\ _tail \in live

\* The state machine of advance as specified, for a Valid iterator i whose
\* block is allocated: <<state, block, index>>, block and index being
\* meaningful for Valid only.
Advanced(i) ==
    IF i.idx + 1 = N
    THEN IF heap[i.block].next # Null THEN <<"valid", heap[i.block].next, 0>>
         ELSE <<"past_end", Null, 0>>
    ELSE IF i.idx + 1 = heap[i.block].size THEN <<"past_end", Null, 0>>
         ELSE <<"valid", i.block, i.idx + 1>>

\* Iterator j is in the specified position p.
IsAt(j, p) ==
    j.state = p[1] /\ (p[1] = "valid" => (j.block = p[2] /\ j.idx = p[3]))

\* C22: operator++ and operator++(int) take a Valid iterator to the position
\* the state machine gives, touch nothing of the container, and throw on an
\* iterator that is BeforeBegin or PastEnd.
C22_AdvanceStateMachine ==
    fault = "none" =>
        \A i \in Iterators :
            IF i.state = "valid"
            THEN (i.block \in live /\ i.idx < N) =>
                    \A r \in iter_inc(Self, i) \cup iter_post_inc(Self, i) :
                        Running(r) /\ Untouched(r) /\ IsAt(r.ret, Advanced(i))
            ELSE \A r \in iter_inc(Self, i) \cup iter_post_inc(Self, i) :
                    Threw(r) /\ Untouched(r)

\* C22 witness: the client's iterator has just been advanced from the last
\* slot of the head block into the next block; in another state it would
\* become PastEnd at the boundary of a partial tail block.
C22_Witness ==
    /\ fault = "none" /\ call = [op |-> "operator++", ex |-> "none"]
    /\ it.state = "valid" /\ it.idx = 0 /\ it.block \in live /\ it.block # _head
    /\ heap[_head].next = it.block
    /\ IsAt(it, Advanced(Iter(_head, N - 1, "valid")))

\* C23: on a non-empty container operator-- takes every PastEnd iterator
\* (end(), or one the client reached by advancing and kept across push_back
\* and pop_back) to the last element, Valid(tail, tail.count - 1); it throws
\* on a BeforeBegin iterator and takes Valid(head, 0) to BeforeBegin.
C23_RetreatStateMachine ==
    (fault = "none" /\ _size > 0) =>
        \A i \in Iterators :
            /\ (i.state = "past_end" /\ i.block \in live) =>
                  \A r \in iter_dec(Self, i) :
                      /\ Running(r)
                      /\ r.ret.state = "valid" /\ r.ret.block = _tail
                      /\ r.ret.idx = heap[_tail].size - 1
            /\ i.state = "before_begin" => \A r \in iter_dec(Self, i) : Threw(r)
            /\ (i.state = "valid" /\ i.block = _head /\ i.idx = 0 /\ _head \in live) =>
                  \A r \in iter_dec(Self, i) : Running(r) /\ r.ret.state = "before_begin"

\* The iterators reached from those of I by at most n steps of operator++
\* and operator-- that returned.
RECURSIVE Moved(_, _)
Moved(I, n) ==
    IF n = 0 THEN I
    ELSE Moved(I \cup UNION {RetsOf(iter_inc(Self, i)) \cup RetsOf(iter_dec(Self, i)) : i \in I}, n - 1)

\* C24: an iterator obtained from begin() or end() now and moved by ++/--
\* steps that returned is BeforeBegin, Valid or PastEnd, and when it is Valid
\* it names a block of the chain and an index below that block's count.
C24_ValidIsLive ==
    fault = "none" =>
        \A j \in Moved(RetsOf(begin(Self)) \cup RetsOf(end(Self)), LoopFuel) :
            /\ j.state \in {"before_begin", "valid", "past_end"}
            /\ j.state = "valid" =>
                  (j.block \in ChainSet /\ j.idx < heap[j.block].size)

\* C25: erase at any Valid position of a container whose tail block holds
\* one element of several leaves that block out of the chain, the new tail's
\* next null, capacity N lower and the block count one lower; the block is
\* deallocated if a reserved block was held (which is kept), and becomes the
\* reserved block otherwise.
C25_EraseReclaimsTail ==
    (fault = "none" /\ Holds(Self, ref) /\ _tail \in live /\ _tail # _head
                    /\ heap[_tail].size = 1) =>
        \A k \in 0..(Len(ref) - 1) :
            \A p \in Positions(Self, k) :
                Running(p) =>
                    \A r \in erase(Self, p.ret) :
                        /\ Running(r)
                        /\ r.tail = heap[_tail].previous
                        /\ r.mem[r.tail].next = Null
                        /\ r.capacity = _capacity - N
                        /\ r.num_blocks = _num_blocks - 1
                        /\ IF _reserved # Null
                           THEN r.reserved = _reserved /\ r.live = live \ {_tail}
                           ELSE r.reserved = _tail /\ r.live = live

\* C26: insert at a Valid position leaves capacity, block count and the set
\* of allocated blocks alone when size() < capacity() before the call, and
\* adds exactly one block (the reserved one if held, else a new one) when
\* size() = capacity().
C26_InsertGrowsWhenFull ==
    (fault = "none" /\ Holds(Self, ref)) =>
        \A k \in 0..(Len(ref) - 1), v \in Val :
            \A p \in Positions(Self, k) :
                Running(p) =>
                    \A r \in insert(Self, p.ret, v) :
                        /\ r.fault = "none"
                        /\ IF _size < _capacity
                           THEN r.capacity = _capacity /\ r.num_blocks = _num_blocks /\ r.live = live
                           ELSE /\ r.capacity = _capacity + N /\ r.num_blocks = _num_blocks + 1
                                /\ IF _reserved # Null
                                   THEN r.live = live /\ r.tail = _reserved
                                   ELSE Cardinality(r.live) = Cardinality(live) + 1

\* C27: after push_back and pop_back calls (pop_back on a non-empty
\* container) capacity() is N * ceil(size() / N), and the tail block of a
\* non-empty container holds at least one element.
C27_CapacityIsTight ==
    fault = "none" =>
        /\ _capacity = N * ((_size + N - 1) \div N)
        /\ (_size > 0 /\ _tail \in live) => heap[_tail].size > 0

\* C28: the allocated blocks are exactly the blocks of the chain and the
\* reserved block; head, tail, reserved and the links of allocated blocks
\* name allocated blocks only; and no block is deallocated twice.
C28_Ownership ==
    /\ fault # "double_free"
    /\ fault = "none" =>
          /\ live = ChainSet \cup ({_reserved} \ {Null})
          /\ {_head, _tail, _reserved} \subseteq live \cup {Null}
          /\ \A b \in live : {heap[b].previous, heap[b].next} \subseteq live \cup {Null}

\* C29: following _next from _head visits every block once and ends at
\* _tail; the head has no previous and the tail no next block; and the
\* previous link of a block's next block leads back to the block.
C29_ChainWellFormed ==
    fault = "none" =>
        /\ \A i \in 1..Len(Chain), j \in 1..Len(Chain) : Chain[i] = Chain[j] => i = j
        /\ (_head = Null) = (_tail = Null)
        /\ _head # Null =>
              /\ Chain[Len(Chain)] = _tail
              /\ heap[_head].previous = Null
              /\ heap[_tail].next = Null
        /\ \A b \in ChainSet : heap[b].next # Null => heap[heap[b].next].previous = b

====
